---------------------------- MODULE Spec2Model ----------------------------
(***************************************************************************)
(* BiOxiOptimize.py: a genetic algorithm over blend compositions.          *)
(*                                                                         *)
(* Arithmetic.  The program computes in IEEE doubles: every operation      *)
(* rounds its exact result to the nearest representable number.  The model *)
(* keeps that shape at a coarser precision: a real x is the integer        *)
(* x * ONE (four decimal places), sums and differences are exact, and      *)
(* every product and quotient is rounded to the nearest unit.  The         *)
(* literals of the program (0.0005, 0.002, 0.02, 0.30, 1.20 ...) are all   *)
(* exact at this precision.                                                *)
(*                                                                         *)
(* Randomness.  Every call of the random module is a nondeterministic      *)
(* choice among a few of the values the call can return.                   *)
(***************************************************************************)
EXTENDS Integers, Sequences, FiniteSets, TLC

VARIABLES
    pc,           \* position in run_ga: start, loop, elite, breed, done, error
    names,        \* COMPONENT_NAMES of this run
    N,            \* POPULATION_SIZE of this run
    G,            \* GENERATIONS of this run
    gen,          \* number of completed iterations of the for loop
    pop,          \* the population: a sequence of compositions
    scored,       \* the scored list of the current generation, ranked
    next_pop,     \* the population being built
    all_results,  \* the (ip, cost) pairs of every evaluation
    p1,           \* the locals of the while loop: the two parents ...
    p2,
    child,        \* ... and the child, clamped, before it is renormalized
    error,        \* the exception that ended the run, and where
    result,       \* what run_ga returned
    run,          \* which run of run_ga this is (1 or 2)
    first_result  \* what the first run returned

vars == <<pc, names, N, G, gen, pop, scored, next_pop, all_results, p1, p2,
          child, error, result, run, first_result>>

-----------------------------------------------------------------------------
(* Bounds of the model: the program runs 100 individuals for 100           *)
(* generations; the model runs fewer of both.                              *)
POPULATION_SIZE == 3
GENERATIONS == 2

-----------------------------------------------------------------------------
(* Fixed-point arithmetic *)

ONE == 10 ^ 4

\* The decimal n/d, which must be exact at the model's precision.
Dec(n, d) == (n * ONE) \div d

\* a / b rounded to the nearest integer (halves up).
RoundDiv(a, b) == (a + (b \div 2)) \div b

\* Product and quotient of two reals, rounded.
FMul(x, y) == RoundDiv(x * y, ONE)
FDiv(x, y) == RoundDiv(x * ONE, y)

RECURSIVE SumSeq(_)
SumSeq(s) == IF s = <<>> THEN 0 ELSE Head(s) + SumSeq(Tail(s))

\* list.index(name): 0 stands for the ValueError of a name that is absent.
Index(s, name) ==
    IF \E i \in 1..Len(s) : s[i] = name
    THEN CHOOSE i \in 1..Len(s) : s[i] = name /\ \A j \in 1..(i-1) : s[j] # name
    ELSE 0

-----------------------------------------------------------------------------
(* Industry data and constraints *)

COMPONENTS ==
    [Methyl_Oleate    |-> [stability_IP |-> Dec(5, 1),  viscosity |-> Dec(45, 10), cost |-> Dec(120, 100)],
     Methyl_Palmitate |-> [stability_IP |-> Dec(12, 1), viscosity |-> Dec(6, 1),   cost |-> Dec(150, 100)],
     Methyl_Linoleate |-> [stability_IP |-> Dec(1, 1),  viscosity |-> Dec(4, 1),   cost |-> Dec(130, 100)],
     BHT_Antioxidant  |-> [stability_IP |-> Dec(0, 1),  viscosity |-> Dec(10, 1),  cost |-> Dec(15, 1)]]

COMPONENT_NAMES ==
    <<"Methyl_Oleate", "Methyl_Palmitate", "Methyl_Linoleate", "BHT_Antioxidant">>

BHT_SOLUBILITY_MAX == Dec(2, 1000)

Vmax == Dec(12, 1)
Km == Dec(5, 10000)

\* The Kinetic Synergy Module.
calculate_stability(bht_pct, base_IP) ==
    base_IP + FMul(Vmax, FDiv(bht_pct, Km + bht_pct))


RECURSIVE WeightedSum(_, _, _, _)
\* The accumulation of the for loop of calculate_fitness for one attribute:
\* every product is rounded, the sum is exact.  skip names the component left
\* out of the sum ("" for none).
WeightedSum(individual, nm, attr, skip) ==
    IF individual = <<>> \/ nm = <<>> THEN 0
    ELSE (IF Head(nm) = skip THEN 0
          ELSE FMul(Head(individual), COMPONENTS[Head(nm)][attr]))
         + WeightedSum(Tail(individual), Tail(nm), attr, skip)

\* Penalties with the cap term added whether or not the cap is exceeded.
Penalties_capAlways(total_IP, viscosity, palmitate_pct, bht_pct) ==
      (IF total_IP < Dec(8, 1) THEN (Dec(8, 1) - total_IP) * 50 ELSE 0)
    + (IF viscosity > Dec(6, 1) THEN (viscosity - Dec(6, 1)) * 100 ELSE 0)
    + (palmitate_pct - Dec(30, 100)) * 150
    + (IF bht_pct > BHT_SOLUBILITY_MAX THEN (bht_pct - BHT_SOLUBILITY_MAX) * 500 ELSE 0)

\* Penalties for violating physical or regulatory limits.
Penalties(total_IP, viscosity, palmitate_pct, bht_pct) ==
      (IF total_IP < Dec(8, 1) THEN (Dec(8, 1) - total_IP) * 50 ELSE 0)
    + (IF viscosity > Dec(6, 1) THEN (viscosity - Dec(6, 1)) * 100 ELSE 0)
    + (IF palmitate_pct > Dec(30, 100) THEN (palmitate_pct - Dec(30, 100)) * 150 ELSE 0)
    + (IF bht_pct > BHT_SOLUBILITY_MAX THEN (bht_pct - BHT_SOLUBILITY_MAX) * 500 ELSE 0)

\* COMPONENT_NAMES.index(...) raises ValueError for a name that is absent.
FitnessRaises(nm) ==
    Index(nm, "BHT_Antioxidant") = 0 \/ Index(nm, "Methyl_Palmitate") = 0

\* (fitness, total_IP, cost) of an individual, with the individual itself: the
\* tuple run_ga appends to scored.
calculate_fitness(individual, nm) ==
    LET bht_pct       == individual[Index(nm, "BHT_Antioxidant")]
        palmitate_pct == individual[Index(nm, "Methyl_Palmitate")]
        viscosity     == WeightedSum(individual, nm, "viscosity", "")
        cost          == WeightedSum(individual, nm, "cost", "")
        base_IP       == WeightedSum(individual, nm, "stability_IP", "BHT_Antioxidant")
        total_IP      == calculate_stability(bht_pct, base_IP)
        penalties     == Penalties(total_IP, viscosity, palmitate_pct, bht_pct)
    IN  [fit  |-> (total_IP * 2) - (cost * 10) - penalties,
         ip   |-> total_IP,
         cost |-> cost,
         ind  |-> individual]

-----------------------------------------------------------------------------
(* The values the model lets the random module return *)

\* [random.random() for _ in range(n)]: the n draws of one individual, each in
\* [0, 1).  Three of the vectors the call can return: all zeros, a blend
\* with antioxidant, and one without.
InitDraws(n) ==
    { SubSeq(v, 1, n) : v \in { <<0, 0, 0, 0>>,
                                <<Dec(6, 10), Dec(3, 10), Dec(1, 10), Dec(4, 100)>>,
                                <<Dec(5, 10), Dec(25, 100), Dec(25, 100), 0>> } }

\* random.choice(seq): the first or the last entry of seq (1-based index).
ChoiceDraws(seq) == {1, Len(seq)}

\* random.random() < 0.1
MutateDraws == BOOLEAN

\* random.randint(0, n-1): the last index of the child (1-based).
IndexDraws(n) == {n}

\* random.uniform(-0.02, 0.02): the lower end of the interval.
OffsetDraws == { -Dec(2, 100) }

-----------------------------------------------------------------------------
(* run_ga *)

NoError == [kind |-> "none", line |-> 0]
NoResult == [best |-> <<>>, history |-> <<>>]

\* [x/sum(ind) for x in ind]
Normalize(ind) == [i \in 1..Len(ind) |-> FDiv(ind[i], SumSeq(ind))]

\* The division of Normalize raises ZeroDivisionError: ind has an entry and
\* its entries sum to zero.
NormalizeRaises(ind) == ind # <<>> /\ SumSeq(ind) = 0

RECURSIVE Insert(_, _)
\* x put into the ranked list s behind every entry that is at least as fit.
Insert(x, s) ==
    IF s = <<>> THEN <<x>>
    ELSE IF Head(s).fit >= x.fit THEN <<Head(s)>> \o Insert(x, Tail(s))
    ELSE <<x>> \o s

RECURSIVE Ranked(_)
\* scored.sort(key=lambda x: x[0], reverse=True): by fitness, descending,
\* entries of equal fitness in the order they had.
Ranked(s) ==
    IF s = <<>> THEN <<>>
    ELSE Insert(s[Len(s)], Ranked(SubSeq(s, 1, Len(s) - 1)))

\* The scored list of a population, before it is sorted.
Score(population, nm) ==
    [i \in 1..Len(population) |-> calculate_fitness(population[i], nm)]

\* Recorded with all_results emptied at the head of every generation.
Recorded_perGeneration(history, sc) ==
    [i \in 1..Len(sc) |-> <<sc[i].ip, sc[i].cost>>]

\* all_results after the evaluation loop appended one pair per individual.
Recorded(history, sc) ==
    history \o [i \in 1..Len(sc) |-> <<sc[i].ip, sc[i].cost>>]

\* Elites taken from the wrong end of the ranked list.
Elites_lastTwo(sc) == <<sc[Len(sc) - 1].ind, sc[Len(sc)].ind>>

\* Elites with the fittest carried twice.
Elites_bestTwice(sc) == <<sc[1].ind, sc[1].ind>>

\* [scored[0][3], scored[1][3]]
Elites(sc) == <<sc[1].ind, sc[2].ind>>

\* scored[:10]
Top(sc) == SubSeq(sc, 1, IF Len(sc) < 10 THEN Len(sc) ELSE 10)

\* Crossover with the difference of the parents in place of their sum.
Crossover_difference(a, b) == [i \in 1..Len(a) |-> RoundDiv(a[i] - b[i], 2)]

\* [(p1[i]+p2[i])/2 for i in range(len(p1))]
Crossover(a, b) == [i \in 1..Len(a) |-> RoundDiv(a[i] + b[i], 2)]

\* child[idx] += offset
Mutate(c, idx, offset) == [c EXCEPT ![idx] = @ + offset]

\* Clamp left out.
Clamp_none(c) == c

\* [max(0, x) for x in child]
Clamp(c) == [i \in 1..Len(c) |-> IF c[i] > 0 THEN c[i] ELSE 0]

Raise(kind, line) ==
    /\ pc' = "error"
    /\ error' = [kind |-> kind, line |-> line]

\* Lines 70-72: the initial population, drawn and projected onto the simplex.
Initialize ==
    /\ pc = "start"
    /\ \E raw \in [1..(IF N > 0 THEN N ELSE 0) -> InitDraws(Len(names))] :
          IF \E i \in DOMAIN raw : NormalizeRaises(raw[i])
          THEN /\ Raise("ZeroDivisionError", 71)
               /\ UNCHANGED <<pop, all_results>>
          ELSE /\ pop' = [i \in DOMAIN raw |-> Normalize(raw[i])]
               /\ all_results' = <<>>
               /\ pc' = "loop"
               /\ UNCHANGED error
    /\ UNCHANGED <<names, N, G, gen, scored, next_pop, p1, p2, child, result,
                   run, first_result>>

\* Lines 75-83: one more generation is due; every individual is scored and
\* recorded, and the scored list is ranked.
Evaluate ==
    /\ pc = "loop"
    /\ gen < G
    /\ IF pop # <<>> /\ FitnessRaises(names)
       THEN /\ Raise("ValueError", 42)
            /\ UNCHANGED <<scored, all_results>>
       ELSE /\ scored' = Ranked(Score(pop, names))
            /\ all_results' = Recorded(all_results, Score(pop, names))
            /\ pc' = "elite"
            /\ UNCHANGED error
    /\ UNCHANGED <<names, N, G, gen, pop, next_pop, p1, p2, child, result, run,
                   first_result>>

\* Line 86: the two fittest open the next population.
Elitism ==
    /\ pc = "elite"
    /\ IF Len(scored) < 2
       THEN /\ Raise("IndexError", 86)
            /\ UNCHANGED next_pop
       ELSE /\ next_pop' = Elites(scored)
            /\ pc' = "breed"
            /\ UNCHANGED error
    /\ UNCHANGED <<names, N, G, gen, pop, scored, all_results, p1, p2, child,
                   result, run, first_result>>

\* Lines 87-94: one iteration of the while loop.
Breed ==
    /\ pc = "breed"
    /\ Len(next_pop) < N
    /\ \E i \in ChoiceDraws(Top(scored)), j \in ChoiceDraws(Top(scored)) :
       \E mutate \in MutateDraws :
       \E idx \in IndexDraws(Len(names)), offset \in OffsetDraws :
          LET a == Top(scored)[i].ind
              b == Top(scored)[j].ind
              c == Clamp(IF mutate THEN Mutate(Crossover(a, b), idx, offset)
                                   ELSE Crossover(a, b))
          IN  /\ p1' = a
              /\ p2' = b
              /\ child' = c
              /\ IF NormalizeRaises(c)
                 THEN /\ Raise("ZeroDivisionError", 94)
                      /\ UNCHANGED next_pop
                 ELSE /\ next_pop' = Append(next_pop, Normalize(c))
                      /\ UNCHANGED <<pc, error>>
    /\ UNCHANGED <<names, N, G, gen, pop, scored, all_results, result, run,
                   first_result>>

\* Line 95: the next population replaces the current one.
Replace ==
    /\ pc = "breed"
    /\ Len(next_pop) >= N
    /\ pop' = next_pop
    /\ gen' = gen + 1
    /\ pc' = "loop"
    /\ UNCHANGED <<names, N, G, scored, next_pop, all_results, p1, p2, child,
                   error, result, run, first_result>>

\* Line 98: the loop is over.  scored is bound only if its body ran.
Return ==
    /\ pc = "loop"
    /\ gen >= G
    /\ IF gen = 0
       THEN /\ Raise("UnboundLocalError", 98)
            /\ UNCHANGED result
       ELSE /\ result' = [best |-> scored[1], history |-> all_results]
            /\ pc' = "done"
            /\ UNCHANGED error
    /\ UNCHANGED <<names, N, G, gen, pop, scored, next_pop, all_results, p1, p2,
                   child, run, first_result>>

\* The state in which run_ga is entered with the given module constants.
Entered(nm, n, g) ==
    /\ pc = "start"
    /\ names = nm
    /\ N = n
    /\ G = g
    /\ gen = 0
    /\ pop = <<>>
    /\ scored = <<>>
    /\ next_pop = <<>>
    /\ all_results = <<>>
    /\ p1 = <<>>
    /\ p2 = <<>>
    /\ child = <<>>
    /\ error = NoError
    /\ result = NoResult
    /\ run = 1
    /\ first_result = NoResult

Init == Entered(COMPONENT_NAMES, POPULATION_SIZE, GENERATIONS)

Next == Initialize \/ Evaluate \/ Elitism \/ Breed \/ Replace \/ Return

Spec == Init /\ [][Next]_vars

-----------------------------------------------------------------------------
(* The module constants edited: every configuration the spec calls fatal     *)
(* (an empty registry, a size or count that is zero or negative, a          *)
(* distinguished component that is not registered) beside the program's.    *)

Without(nm, name) == SelectSeq(nm, LAMBDA x : x # name)

ConfigNames ==
    { COMPONENT_NAMES, <<>>, Without(COMPONENT_NAMES, "BHT_Antioxidant"),
      Without(COMPONENT_NAMES, "Methyl_Palmitate") }

ConfigSizes == { -1, 0, 1, 2, POPULATION_SIZE }

ConfigCounts == { -1, 0, 1, GENERATIONS }

ValidConfig ==
    /\ names # <<>>
    /\ N > 0
    /\ G > 0
    /\ Index(names, "BHT_Antioxidant") # 0
    /\ Index(names, "Methyl_Palmitate") # 0

InitConfig ==
    \E nm \in ConfigNames, n \in ConfigSizes, g \in ConfigCounts : Entered(nm, n, g)

SpecConfig == InitConfig /\ [][Next]_vars

-----------------------------------------------------------------------------
(* run_ga called a second time with the same module constants.  It takes no *)
(* argument and seeds nothing: both runs draw from the random module as it  *)
(* stands.                                                                  *)

Rerun ==
    /\ pc = "done"
    /\ run = 1
    /\ first_result' = result
    /\ run' = 2
    /\ pc' = "start"
    /\ gen' = 0
    /\ pop' = <<>>
    /\ scored' = <<>>
    /\ next_pop' = <<>>
    /\ all_results' = <<>>
    /\ p1' = <<>>
    /\ p2' = <<>>
    /\ child' = <<>>
    /\ result' = NoResult
    /\ UNCHANGED <<names, N, G, error>>

InitTwoRuns == Entered(COMPONENT_NAMES, POPULATION_SIZE, 1)

NextTwoRuns == Next \/ Rerun

SpecTwoRuns == InitTwoRuns /\ [][NextTwoRuns]_vars

-----------------------------------------------------------------------------
(* calculate_fitness alone, applied to one simplex-valid individual.        *)

\* Fractions of the three esters in tenths, of the antioxidant around its
\* solubility limit and in tenths; the first ester takes the rest.
FitnessInputs ==
    LET Tenths == { Dec(k, 10) : k \in 0..10 }
        Bht    == { 0, Dec(1, 1000), Dec(2, 1000), Dec(3, 1000) } \cup Tenths
    IN  { <<ONE - (a + b + c), a, b, c>> :
            <<a, b, c>> \in { t \in Tenths \X Tenths \X Bht : t[1] + t[2] + t[3] <= ONE } }

InitFitness ==
    /\ pc = "fitness"
    /\ names = COMPONENT_NAMES
    /\ N = 1
    /\ G = 1
    /\ gen = 0
    /\ \E ind \in FitnessInputs : pop = <<ind>>
    /\ scored = <<>>
    /\ next_pop = <<>>
    /\ all_results = <<>>
    /\ p1 = <<>>
    /\ p2 = <<>>
    /\ child = <<>>
    /\ error = NoError
    /\ result = NoResult
    /\ run = 1
    /\ first_result = NoResult

ScoreOne ==
    /\ pc = "fitness"
    /\ scored' = <<calculate_fitness(pop[1], names)>>
    /\ pc' = "scored"
    /\ UNCHANGED <<names, N, G, gen, pop, next_pop, all_results, p1, p2, child,
                   error, result, run, first_result>>

SpecFitness == InitFitness /\ [][ScoreOne]_vars

-----------------------------------------------------------------------------
(* Properties *)

\* The rounding the renormalization leaves: half a unit an entry.
SimplexTol == (Len(COMPONENT_NAMES) + 1) \div 2

Abs(x) == IF x < 0 THEN -x ELSE x

Max0(x) == IF x > 0 THEN x ELSE 0

SimplexValid(ind) ==
    /\ \A i \in 1..Len(ind) : ind[i] >= 0
    /\ Abs(SumSeq(ind) - ONE) <= SimplexTol

\* C1 -- Elitism monotonicity: the fitness ranked 0 in a generation is at
\* least the fitness ranked 0 in the generation before it, whatever was drawn.
C1_ElitismMonotone ==
    [][(pc = "loop" /\ pc' = "elite" /\ gen > 0) => scored'[1].fit >= scored[1].fit]_vars

\* A second generation is ranked and a child beats the elite carried into it.
C1_Witness ==
    /\ pc = "elite"
    /\ gen >= 1
    /\ scored[1].fit > calculate_fitness(pop[1], names).fit

\* C2 -- Simplex invariant: every individual of a population (the current
\* one, the one being built, the scored records) has no negative entry and
\* entries that sum to 1 within the rounding of the arithmetic.
C2_SimplexInvariant ==
    /\ \A i \in 1..Len(pop) : SimplexValid(pop[i])
    /\ \A i \in 1..Len(next_pop) : SimplexValid(next_pop[i])
    /\ \A i \in 1..Len(scored) : SimplexValid(scored[i].ind)

\* A child whose mutated entry went negative was clamped, renormalized and
\* stored.
C2_Witness ==
    /\ pc = "breed"
    /\ child # <<>>
    /\ \E i \in 1..Len(child) : child[i] = 0 /\ Crossover(p1, p2)[i] > 0
    /\ next_pop[Len(next_pop)] = Normalize(child)

\* C3 -- EvaluationHistory is append-only and holds one pair per individual
\* evaluated: N * k pairs after k completed generations (N more once the
\* generation under way is evaluated), N * G after a full run.
C3_HistoryAppendOnly ==
    [][/\ Len(all_results') >= Len(all_results)
       /\ SubSeq(all_results', 1, Len(all_results)) = all_results
       /\ Len(all_results') =
             N * (IF pc' \in {"elite", "breed"} THEN gen' + 1 ELSE gen')
       /\ (pc' = "done" => Len(result'.history) = N * G)]_vars

\* A full run of at least two generations has returned.
C3_Witness ==
    /\ pc = "done"
    /\ G >= 2
    /\ Len(result.history) = N * G

\* C4 -- Reproducibility: a second run with the same configuration (run_ga
\* has no seed to pass) returns what the first run returned.
C4_Reproducible ==
    (run = 2 /\ pc = "done") => result = first_result

\* C5 -- Degenerate individuals: no division by a zero sum escapes run_ga.
C5_NoZeroDivisionEscapes ==
    error.kind # "ZeroDivisionError"

\* C6 -- Configuration errors: a run with a fatal configuration never fails
\* inside the generational loop or after it.
C6_ConfigErrorsBeforeLoop ==
    (pc = "error" /\ ~ValidConfig) => error.line < 75

\* C7 -- fitness = 2 * stability - 10 * cost - penalty, the penalty being the
\* sum of the four excess terms, each zero unless its limit is strictly
\* passed; at the cap exactly the cap term is zero; [0.4, 0.3, 0.2, 0.1] pays
\* the solubility penalty 49 alone and scores -40.42 within 0.005.
C7_FitnessFormula ==
    pc = "scored" =>
        LET r         == scored[1]
            viscosity == WeightedSum(r.ind, names, "viscosity", "")
            shortfall == Max0(Dec(8, 1) - r.ip) * 50
            thickness == Max0(viscosity - Dec(6, 1)) * 100
            cap       == Max0(r.ind[2] - Dec(30, 100)) * 150
            solubil   == Max0(r.ind[4] - Dec(2, 1000)) * 500
        IN  /\ r.fit = 2 * r.ip - 10 * r.cost - (shortfall + thickness + cap + solubil)
            /\ r.ind[2] = Dec(30, 100) =>
                  r.fit = 2 * r.ip - 10 * r.cost - (shortfall + thickness + solubil)
            /\ r.ind = <<Dec(4, 10), Dec(3, 10), Dec(2, 10), Dec(1, 10)>> =>
                  /\ shortfall = 0 /\ thickness = 0 /\ cap = 0
                  /\ solubil = Dec(49, 1)
                  /\ Abs(r.fit + Dec(4042, 100)) <= Dec(5, 1000)

\* [0.4, 0.3, 0.2, 0.1] has been scored.
C7_Witness ==
    /\ pc = "scored"
    /\ scored[1].ind = <<Dec(4, 10), Dec(3, 10), Dec(2, 10), Dec(1, 10)>>
    /\ scored[1].fit < 0

\* C8 -- The loop is bounded and total: a run ends only by returning, after
\* exactly G generations, the record ranked 0 in the last evaluated
\* generation and the full history.
C8_EveryRunReturns ==
    pc \in {"done", "error"} =>
        /\ pc = "done"
        /\ gen = G
        /\ result.best = scored[1]
        /\ result.history = all_results

\* C9 -- A generation step replaces the population by one of exactly N
\* individuals whose first two are the compositions ranked 0 and 1, entry for
\* entry; breeding a child changes no composition of the population, of the
\* scored records or of the part of the next population already built.
C9_WholesaleReplacement ==
    [][/\ (pc = "breed" /\ pc' = "loop") =>
             /\ Len(pop') = N
             /\ pop'[1] = scored[1].ind
             /\ pop'[2] = scored[2].ind
             /\ scored' = scored
       /\ (pc = "breed" /\ pc' = "breed") =>
             /\ pop' = pop
             /\ scored' = scored
             /\ Len(next_pop') = Len(next_pop) + 1
             /\ SubSeq(next_pop', 1, Len(next_pop)) = next_pop
             /\ SubSeq(next_pop', 1, 2) = <<scored[1].ind, scored[2].ind>>]_vars

\* A population with a bred child in it has replaced the one before, and the
\* two elites differ.
C9_Witness ==
    /\ pc = "loop"
    /\ gen >= 1
    /\ Len(pop) = N
    /\ N > 2
    /\ pop[1] # pop[2]
    /\ pop[N] = Normalize(child)

\* C10 -- In reproduction the clamped child sums to at least 0.98 (exactly so
\* bounded when both parents sum to exactly 1, and within the rounding of the
\* arithmetic otherwise), hence to more than zero: the renormalization of
\* line 94 never divides by zero, and only the initialization can.
C10_ChildSumPositive ==
    /\ child # <<>> =>
          /\ SumSeq(child) > 0
          /\ SumSeq(child) >= Dec(98, 100) - SimplexTol
          /\ (SumSeq(p1) = ONE /\ SumSeq(p2) = ONE) => SumSeq(child) >= Dec(98, 100)
    /\ error.kind = "ZeroDivisionError" => error.line = 71

\* A child of two parents that sum to 1 was mutated by -0.02 and not clamped:
\* its sum is 0.98.
C10_Witness ==
    /\ pc = "breed"
    /\ child # <<>>
    /\ SumSeq(p1) = ONE
    /\ SumSeq(p2) = ONE
    /\ SumSeq(child) = Dec(98, 100)

=============================================================================
